---- MODULE Spec2Model ----
(***************************************************************************)
(* Contextual-bandit scorers of ReAgent and their closed-form trainer.     *)
(*                                                                         *)
(*   Spec      DisjointLinUCBTrainer driving a DisjointLinearRegressionUCB *)
(*             scorer (training_step, update_params, on_train_epoch_end).  *)
(*   SpecDeep  DeepRepresentLinearRegressionUCB: construction, statistic   *)
(*             updates, coefficient estimation, forward.                   *)
(*   SpecMask  synthetic_reward._gen_mask as a pure function.              *)
(*                                                                         *)
(* Tensors are exact: a 2-D tensor is a sequence of rows, a column tensor  *)
(* of shape (n, 1) is a sequence of n numbers, an Optional value is a      *)
(* sequence of zero or one elements.  Quotients produced by the matrix     *)
(* inverse are kept as numerator (adjugate) over denominator (determinant) *)
(* so that no rounding enters the model.                                   *)
(***************************************************************************)
EXTENDS Integers, Sequences, FiniteSets, TLC

VARIABLES scorer, pre, last, nops, deep, dlast, mask

vars == <<scorer, pre, last, nops, deep, dlast, mask>>

(* ------------------------------------------------------------------ *)
(* Configuration and bounds                                            *)
(* ------------------------------------------------------------------ *)

\* number of arms of the scorer the trainer is built on
NumArms == 2

\* input dimension of the ridge-regression heads (columns of x)
Dim == 2

\* ridge regularisation added to A before it is inverted
L2RegLambda == 1

\* calls made on the trainer in one behaviour
MaxOps == 3

\* most rows of a sub-batch's feature matrix
MaxRows == 2

\* largest observation count carried by a weight entry
MaxWeight == 2

\* calls made on the deep-represent model in one behaviour
MaxDeepOps == 5

\* exploration coefficient of a head when forward is given none
DefaultUcbAlpha == 1

\* largest batch_size and seq_len handed to the mask helper
MaxBatchSize == 3
MaxSeqLen == 4

Arms == 0 .. (NumArms - 1)

(* ------------------------------------------------------------------ *)
(* Optional values and tensors                                         *)
(* ------------------------------------------------------------------ *)

None == << >>
Some(v) == << v >>
IsNone(o) == o = << >>
Val(o) == o[1]

RECURSIVE Sum(_)
Sum(s) == IF s = << >> THEN 0 ELSE Head(s) + Sum(Tail(s))

Dot(u, v) == Sum([i \in 1 .. Len(u) |-> u[i] * v[i]])

Zeros(d) == [i \in 1 .. d |-> 0]
ZeroMat(d) == [i \in 1 .. d |-> Zeros(d)]
Eye(d) == [i \in 1 .. d |-> [j \in 1 .. d |-> IF i = j THEN 1 ELSE 0]]
Fill(d, c) == [i \in 1 .. d |-> [j \in 1 .. d |-> c]]
Ones(n) == [r \in 1 .. n |-> 1]

NRows(M) == Len(M)
NCols(M) == Len(M[1])

\* x.t()
Transpose(M) == [j \in 1 .. NCols(M) |-> [i \in 1 .. NRows(M) |-> M[i][j]]]

\* torch.matmul of a (a, n) matrix with a (n, c) matrix
MatMul(P, Q) ==
    [i \in 1 .. NRows(P) |->
        [j \in 1 .. NCols(Q) |-> Sum([k \in 1 .. NCols(P) |-> P[i][k] * Q[k][j]])]]

MatVec(M, v) == [i \in 1 .. NRows(M) |-> Dot(M[i], v)]
MatAdd(P, Q) == [i \in 1 .. NRows(P) |-> [j \in 1 .. NCols(P) |-> P[i][j] + Q[i][j]]]
VecAdd(u, v) == [i \in 1 .. Len(u) |-> u[i] + v[i]]
MatScale(c, M) == [i \in 1 .. NRows(M) |-> [j \in 1 .. NCols(M) |-> c * M[i][j]]]
VecScale(c, v) == [i \in 1 .. Len(v) |-> c * v[i]]

\* the size broadcasting gives two sizes of one dimension; 0 when they clash
Broadcast(n, m) == IF n = m THEN n ELSE IF n = 1 THEN m ELSE IF m = 1 THEN n ELSE 0

\* index into a dimension of size n that is broadcast to a larger size
Pick(n, r) == IF n = 1 THEN 1 ELSE r

\* x * weight: a (n, d) matrix times a (m, 1) column, broadcast to (R, d)
MulMatCol(x, w) ==
    [r \in 1 .. Broadcast(NRows(x), Len(w)) |->
        [j \in 1 .. NCols(x) |-> x[Pick(NRows(x), r)][j] * w[Pick(Len(w), r)]]]

\* y * weight: two columns, broadcast to (R, 1)
MulColCol(y, w) ==
    [r \in 1 .. Broadcast(Len(y), Len(w)) |-> y[Pick(Len(y), r)] * w[Pick(Len(w), r)]]

AsColumn(v) == [r \in 1 .. Len(v) |-> << v[r] >>]

(* ------------------------------------------------------------------ *)
(* Ridge solution: inverse and coefficients as exact quotients         *)
(* ------------------------------------------------------------------ *)

Minor(M, i, j) ==
    [r \in 1 .. (NRows(M) - 1) |->
        [c \in 1 .. (NRows(M) - 1) |->
            M[IF r < i THEN r ELSE r + 1][IF c < j THEN c ELSE c + 1]]]

Sign(k) == IF k % 2 = 0 THEN 1 ELSE -1

RECURSIVE Det(_)
Det(M) ==
    IF NRows(M) = 1 THEN M[1][1]
    ELSE Sum([j \in 1 .. NRows(M) |-> Sign(1 + j) * M[1][j] * Det(Minor(M, 1, j))])

Adjugate(M) ==
    IF NRows(M) = 1 THEN << << 1 >> >>
    ELSE [i \in 1 .. NRows(M) |->
            [j \in 1 .. NRows(M) |-> Sign(i + j) * Det(Minor(M, j, i))]]

\* A + l2_reg_lambda * I, the matrix that is inverted
Regularized(A) == MatAdd(A, MatScale(L2RegLambda, Eye(NRows(A))))

\* torch.inverse(A_reg) = Adjugate / Det
Inverse(A) == [num |-> Adjugate(Regularized(A)), den |-> Det(Regularized(A))]

\* inv_A . b
Coefs(A, b) == [num |-> MatVec(Adjugate(Regularized(A)), b), den |-> Det(Regularized(A))]

\* one ridge head: its statistics and the values derived from them
NewHead(d) ==
    [A |-> ZeroMat(d),
     b |-> Zeros(d),
     coefs |-> [num |-> Zeros(d), den |-> 1],
     inv_A |-> [num |-> ZeroMat(d), den |-> 1],
     coefs_valid_for_A |-> Fill(d, -1)]

\* _estimate_coefs of one head
estimate_head(h) ==
    [h EXCEPT !.inv_A = Inverse(h.A),
              !.coefs = Coefs(h.A, h.b),
              !.coefs_valid_for_A = h.A]

\* DisjointLinearRegressionUCB._estimate_coefs: every arm, in one pass
estimate_coefs(sc) == [k \in Arms |-> estimate_head(sc[k])]

\* the scorer after construction: one head per arm
NewScorer == [k \in Arms |-> NewHead(Dim)]

(* ------------------------------------------------------------------ *)
(* DisjointLinUCBTrainer                                               *)
(* ------------------------------------------------------------------ *)

\* outcome of a call: the scorer it leaves, whether it returned, the
\* exception it raised, and the arms whose A and whose b it added to
Outcome(sc, ok, err, updA, updB) ==
    [sc |-> sc, ok |-> ok, err |-> err, updA |-> updA, updB |-> updB]

\* weight = torch.ones_like(torch.tensor(y)) when weight is None
DefaultWeight(y, weight) == IF IsNone(weight) THEN Ones(Len(Val(y))) ELSE Val(weight)

\* GramTerm with the weight left out of the product: x^T x
GramTermUnweighted(x, w) ==
    IF x.ndim = 2
    THEN IF Broadcast(NRows(x.data), Len(w)) = NRows(x.data)
         THEN Some(MatMul(Transpose(x.data), x.data))
         ELSE None
    ELSE None

\* torch.matmul(x.t(), x * weight), as the value added to A[arm_idx];
\* None when broadcasting or matmul rejects the shapes.  A 1-D x is its own
\* transpose, and the 1-D product is broadcast over the rows of A[arm_idx].
GramTerm(x, w) ==
    IF x.ndim = 2
    THEN IF Broadcast(NRows(x.data), Len(w)) = NRows(x.data)
         THEN Some(MatMul(Transpose(x.data), MulMatCol(x.data, w)))
         ELSE None
    ELSE IF Len(w) = NCols(x.data)
         THEN Some([i \in 1 .. NCols(x.data) |->
                      MatMul(x.data, MulMatCol(x.data, w))[1]])
         ELSE None

\* torch.matmul(x.t(), y * weight).squeeze(), as the value added to b[arm_idx]
MomentTerm(x, y, w) ==
    IF x.ndim = 2
    THEN IF Broadcast(Len(y), Len(w)) = NRows(x.data)
         THEN Some(MatVec(Transpose(x.data), MulColCol(y, w)))
         ELSE None
    ELSE IF Broadcast(Len(y), Len(w)) = NCols(x.data)
         THEN Some([i \in 1 .. NCols(x.data) |-> Dot(x.data[1], MulColCol(y, w))])
         ELSE None

\* Python indexing of a dimension of size NumArms: negative indices wrap
ArmOf(arm_idx) == IF arm_idx < 0 THEN arm_idx + NumArms ELSE arm_idx

\* update_params adding to the statistics of every arm instead of A[arm_idx]
update_params_all_arms(sc, arm_idx, x, y, weight) ==
    IF IsNone(y) \/ ArmOf(arm_idx) \notin Arms
    THEN Outcome(sc, FALSE, "RuntimeError", {}, {})
    ELSE LET w == DefaultWeight(y, weight)
             g == GramTerm(x, w)
             m == MomentTerm(x, Val(y), w)
         IN  IF IsNone(g) \/ IsNone(m)
             THEN Outcome(sc, FALSE, "RuntimeError", {}, {})
             ELSE Outcome([k \in Arms |->
                              [sc[k] EXCEPT !.A = MatAdd(sc[k].A, Val(g)),
                                            !.b = VecAdd(sc[k].b, Val(m))]],
                          TRUE, "none", Arms, Arms)

update_params(sc, arm_idx, x, y, weight) ==
    IF IsNone(weight) /\ IsNone(y)
    THEN Outcome(sc, FALSE, "RuntimeError", {}, {})
    ELSE IF ArmOf(arm_idx) \notin Arms
    THEN Outcome(sc, FALSE, "IndexError", {}, {})
    ELSE LET w == DefaultWeight(y, weight)
             k == ArmOf(arm_idx)
             g == GramTerm(x, w)
         IN  IF IsNone(g)
             THEN Outcome(sc, FALSE, "RuntimeError", {}, {})
             ELSE LET scA == [sc EXCEPT ![k].A = MatAdd(sc[k].A, Val(g))]
                  IN  IF IsNone(y)
                      THEN Outcome(scA, FALSE, "TypeError", {k}, {})
                      ELSE LET m == MomentTerm(x, Val(y), w)
                           IN  IF IsNone(m)
                               THEN Outcome(scA, FALSE, "RuntimeError", {k}, {})
                               ELSE Outcome([scA EXCEPT ![k].b = VecAdd(sc[k].b, Val(m))],
                                            TRUE, "none", {k}, {k})

\* _check_input without the assertion on the length of the batch
check_input_no_length(batch) ==
    \A i \in 1 .. Len(batch) :
       /\ batch[i].context_arm_features.ndim = 2
       /\ ~IsNone(batch[i].reward)

\* _check_input leaving its loop after the first sub-batch
check_input_first_only(batch) ==
    /\ Len(batch) = NumArms
    /\ \A i \in 1 .. (IF Len(batch) > 0 THEN 1 ELSE 0) :
          /\ batch[i].context_arm_features.ndim = 2
          /\ ~IsNone(batch[i].reward)

\* _check_input: TRUE when every assertion passes
check_input(batch) ==
    /\ Len(batch) = NumArms
    /\ \A i \in 1 .. Len(batch) :
          /\ batch[i].context_arm_features.ndim = 2
          /\ ~IsNone(batch[i].reward)

\* the loop of training_step from arm_idx on; acc is the outcome so far
RECURSIVE update_arms(_, _, _)
update_arms(acc, batch, arm_idx) ==
    IF arm_idx >= NumArms THEN acc
    ELSE IF arm_idx + 1 > Len(batch)
    THEN Outcome(acc.sc, FALSE, "IndexError", acc.updA, acc.updB)
    ELSE LET sub_batch == batch[arm_idx + 1]
             r == update_params(acc.sc, arm_idx, sub_batch.context_arm_features,
                                sub_batch.reward, sub_batch.weight)
             merged == Outcome(r.sc, r.ok, r.err,
                               acc.updA \cup r.updA, acc.updB \cup r.updB)
         IN  IF r.ok THEN update_arms(merged, batch, arm_idx + 1) ELSE merged

training_step(sc, batch) ==
    IF ~check_input(batch)
    THEN Outcome(sc, FALSE, "AssertionError", {}, {})
    ELSE update_arms(Outcome(sc, TRUE, "none", {}, {}), batch, 0)

\* on_train_epoch_end without the call of _estimate_coefs
on_train_epoch_end_skipped(sc) == Outcome(sc, TRUE, "none", {}, {})

\* on_train_epoch_end: the base class hook leaves the scorer alone, then
\* the scorer estimates its coefficients
on_train_epoch_end(sc) == Outcome(estimate_coefs(sc), TRUE, "none", {}, {})

(* ------------------------------------------------------------------ *)
(* Inputs of the trainer                                               *)
(* ------------------------------------------------------------------ *)

Tensor2(rows) == [ndim |-> 2, data |-> rows]
Tensor1(v) == [ndim |-> 1, data |-> << v >>]

CBInput(x, reward, weight) ==
    [context_arm_features |-> x, reward |-> reward, weight |-> weight]

\* n feature rows for arm k; the rows differ from arm to arm
Features(n, k) ==
    [r \in 1 .. n |-> [c \in 1 .. Dim |-> IF c = ((r + k) % Dim) + 1 THEN 2 ELSE r - 1]]

Rewards(n, k) == [r \in 1 .. n |-> r + k]
Column(n, c) == [r \in 1 .. n |-> c]

\* absent, all ones, and a count above one for every row
WeightChoices(n) == {None, Some(Ones(n)), Some(Column(n, MaxWeight))}

\* a sub-batch as documented: x is (n, Dim), reward and weight are (n, 1)
GoodSub(n, weight, k) == CBInput(Tensor2(Features(n, k)), Some(Rewards(n, k)), weight)

\* sub-batches _check_input rejects: no reward, features not 2-D
RejectedSubs(k) ==
    { CBInput(Tensor2(Features(1, k)), None, None),
      CBInput(Tensor1(Features(1, k)[1]), Some(Rewards(Dim, k)), None) }

\* sub-batches _check_input lets through although the rows of reward or
\* weight are not the rows of x
MisalignedSubs(n, k) ==
    { CBInput(Tensor2(Features(n, k)), Some(Rewards(n + 1, k)), Some(Ones(n))),
      CBInput(Tensor2(Features(n, k)), Some(Rewards(n, k)), Some(Ones(n + 1))),
      CBInput(Tensor2(Features(n, k)), Some(Rewards(n + 1, k)), None) }

\* sub-batches whose single reward or weight row is broadcast over x
BroadcastSubs(n, k) ==
    { CBInput(Tensor2(Features(n, k)), Some(Rewards(1, k)), Some(Column(n, MaxWeight))),
      CBInput(Tensor2(Features(n, k)), Some(Rewards(n, k)), Some(Column(1, MaxWeight))),
      CBInput(Tensor2(Features(n, k)), Some(Rewards(1, k)), None) }

GoodBatch(n, weight) == [i \in 1 .. NumArms |-> GoodSub(n, weight, i - 1)]

GoodBatches == UNION { {GoodBatch(n, w) : w \in WeightChoices(n)} : n \in 1 .. MaxRows }

\* a good batch with the sub-batch of one arm replaced
OneOffBatches ==
    UNION { { [GoodBatch(1, None) EXCEPT ![i] = s] :
                s \in RejectedSubs(i - 1) \cup MisalignedSubs(1, i - 1) } :
            i \in 1 .. NumArms }
    \cup { [GoodBatch(1, None) EXCEPT ![NumArms] = s] :
             s \in BroadcastSubs(MaxRows, NumArms - 1) }

\* batches shorter and longer than the number of arms
WrongLengthBatches ==
    { SubSeq(GoodBatch(1, None), 1, NumArms - 1),
      Append(GoodBatch(1, None), GoodSub(1, None, 0)) }

Batches == GoodBatches \cup OneOffBatches \cup WrongLengthBatches

\* arguments of a direct update_params call: arm_idx from the last arm
\* counted from the end (-1) to one past the last arm
ArmIndices == (0 - 1) .. NumArms

UpdateSubs(k) ==
    { GoodSub(1, None, k),
      GoodSub(MaxRows, Some(Column(MaxRows, MaxWeight)), k),
      CBInput(Tensor2(Features(1, k)), None, Some(Ones(1))),
      CBInput(Tensor2(Features(1, k)), Some(Rewards(2, k)), Some(Ones(1))) }
    \cup RejectedSubs(k)

(* ------------------------------------------------------------------ *)
(* The trainer as a state machine                                      *)
(* ------------------------------------------------------------------ *)

Call(op, batch, arm_idx, r) ==
    [op |-> op, batch |-> batch, arm_idx |-> arm_idx,
     ok |-> r.ok, err |-> r.err, updA |-> r.updA, updB |-> r.updB]

NoCall == Call("idle", << >>, 0, Outcome(NewScorer, TRUE, "none", {}, {}))

\* the deep-represent model before it is constructed
NoDeep ==
    [constructed |-> FALSE, predict_ucb |-> "True", raw_input_dim |-> 0,
     ucb_alpha |-> DefaultUcbAlpha, head |-> NewHead(1),
     mlp_out |-> None, pred_u |-> None, pred_sigma |-> None]

NoArgs ==
    [raw_input_dim |-> 0, sizes |-> << >>, linucb_inp_dim |-> 0, activations |-> << >>,
     predict_ucb |-> "True", inp |-> << >>, ucb_alpha |-> None]

\* a call on the deep-represent model: its arguments, the head it found,
\* whether it returned, the exception it raised, the value it returned
DeepCall(op, args, before, ok, err, ret) ==
    [op |-> op, args |-> args, before |-> before, ok |-> ok, err |-> err, ret |-> ret]

NoDeepCall == DeepCall("idle", NoArgs, NewHead(1), TRUE, "none", None)

NoMask == [valid_step |-> << >>, batch_size |-> 0, seq_len |-> 0, out |-> None]

Init ==
    /\ scorer = NewScorer
    /\ pre = NewScorer
    /\ last = NoCall
    /\ nops = 0
    /\ deep = NoDeep
    /\ dlast = NoDeepCall
    /\ mask = NoMask

TrainingStep ==
    /\ last.op = "idle"
    /\ nops < MaxOps
    /\ \E batch \in Batches :
          LET r == training_step(scorer, batch)
          IN  /\ scorer' = r.sc
              /\ last' = Call("training_step", batch, 0, r)
    /\ pre' = scorer
    /\ nops' = nops + 1
    /\ UNCHANGED <<deep, dlast, mask>>

UpdateParams ==
    /\ last.op = "idle"
    /\ nops < MaxOps
    /\ \E arm_idx \in ArmIndices :
          \E s \in UpdateSubs(IF ArmOf(arm_idx) \in Arms THEN ArmOf(arm_idx) ELSE 0) :
             LET r == update_params(scorer, arm_idx, s.context_arm_features,
                                    s.reward, s.weight)
             IN  /\ scorer' = r.sc
                 /\ last' = Call("update_params", << s >>, arm_idx, r)
    /\ pre' = scorer
    /\ nops' = nops + 1
    /\ UNCHANGED <<deep, dlast, mask>>

OnTrainEpochEnd ==
    /\ last.op = "idle"
    /\ nops < MaxOps
    /\ LET r == on_train_epoch_end(scorer)
       IN  /\ scorer' = r.sc
           /\ last' = Call("on_train_epoch_end", << >>, 0, r)
    /\ pre' = scorer
    /\ nops' = nops + 1
    /\ UNCHANGED <<deep, dlast, mask>>

\* the caller takes the outcome of the call and goes on to its next call
Resume ==
    /\ last.op # "idle"
    /\ last' = NoCall
    /\ pre' = scorer
    /\ UNCHANGED <<scorer, nops, deep, dlast, mask>>

Next == TrainingStep \/ UpdateParams \/ OnTrainEpochEnd \/ Resume

Spec == Init /\ [][Next]_vars

(* ------------------------------------------------------------------ *)
(* DeepRepresentLinearRegressionUCB                                    *)
(* ------------------------------------------------------------------ *)

\* LinearRegressionUCB.__init__(input_dim, predict_ucb): the buffers of a
\* head of that dimension; a negative dimension cannot be allocated
parent_init_ok(input_dim) == input_dim >= 0

\* the assertions of __init__ without the one on the two lengths
init_checks_no_lengths(raw_input_dim, sizes, linucb_inp_dim, activations) ==
    /\ raw_input_dim > 0
    /\ linucb_inp_dim > 0

\* the three assertions of __init__
init_checks(raw_input_dim, sizes, linucb_inp_dim, activations) ==
    /\ raw_input_dim > 0
    /\ linucb_inp_dim > 0
    /\ Len(sizes) = Len(activations)

\* __init__: the model built, or the exception raised
construct(raw_input_dim, sizes, linucb_inp_dim, activations, predict_ucb) ==
    IF ~parent_init_ok(linucb_inp_dim)
    THEN [ok |-> FALSE, err |-> "RuntimeError", model |-> NoDeep]
    ELSE IF ~init_checks(raw_input_dim, sizes, linucb_inp_dim, activations)
    THEN [ok |-> FALSE, err |-> "AssertionError", model |-> NoDeep]
    ELSE [ok |-> TRUE, err |-> "none",
          model |-> [constructed |-> TRUE, predict_ucb |-> predict_ucb,
                     raw_input_dim |-> raw_input_dim, ucb_alpha |-> DefaultUcbAlpha,
                     head |-> NewHead(linucb_inp_dim),
                     mlp_out |-> None, pred_u |-> None, pred_sigma |-> None]]

\* deep_represent_layers(inp): a fixed feed-forward map from rows of
\* raw_input_dim numbers to rows of d numbers, ending in a ReLU
Represent(inp, d) ==
    [r \in 1 .. NRows(inp) |->
        [j \in 1 .. d |->
            LET v == Sum(inp[r]) - (j - 1) * inp[r][1] IN IF v > 0 THEN v ELSE 0]]

\* batch_quadratic_form(x, M): x_i^T M x_i for every row x_i
batch_quadratic_form(x, M) == [r \in 1 .. NRows(x) |-> Dot(x[r], MatVec(M, x[r]))]

\* LinearRegressionUCB update: A += x^T (x * weight), b += x^T (y * weight)
update_head(h, x, y, weight) ==
    LET w == DefaultWeight(Some(y), weight)
    IN  [h EXCEPT !.A = MatAdd(h.A, MatMul(Transpose(x), MulMatCol(x, w))),
                  !.b = VecAdd(h.b, MatVec(Transpose(x), MulColCol(y, w)))]

\* forward without the comparison of coefs_valid_for_A with A
refresh_never(h) == h

\* lines 104-107 of forward: the head whose coefficients are used
refresh(h) == IF h.coefs_valid_for_A # h.A THEN estimate_head(h) ELSE h

\* the values of predict_ucb that an if statement takes as true
Truthy(predict_ucb) == predict_ucb \in {"True", "1.0"}

\* the message of the exception in the else branch of forward
OnlyUcbError == "Exception: Neural Network LinUCB currently only surport predicting ucb"

\* forward(inp, ucb_alpha): the model it leaves and the value it returns
forward(m, inp, ucb_alpha) ==
    LET mlp_out == Represent(inp, NRows(m.head.A))
        alpha == IF IsNone(ucb_alpha) THEN m.ucb_alpha ELSE Val(ucb_alpha)
        h == refresh(m.head)
        m1 == [m EXCEPT !.mlp_out = Some(mlp_out), !.head = h]
        point == [num |-> MatVec(mlp_out, h.coefs.num), den |-> h.coefs.den]
    IN  IF m.predict_ucb # "True"
        THEN [ok |-> FALSE, err |-> "AssertionError", model |-> m1, ret |-> None]
        ELSE IF ~Truthy(m.predict_ucb)
        THEN [ok |-> FALSE, err |-> OnlyUcbError,
              model |-> [m1 EXCEPT !.pred_u = Some(point)], ret |-> None]
        ELSE LET pred_u == point
                 pred_sigma == [alpha |-> alpha,
                                num |-> batch_quadratic_form(mlp_out, h.inv_A.num),
                                den |-> h.inv_A.den]
             IN  [ok |-> TRUE, err |-> "none",
                  model |-> [m1 EXCEPT !.pred_u = Some(pred_u),
                                       !.pred_sigma = Some(pred_sigma)],
                  ret |-> Some([u |-> pred_u, sigma |-> pred_sigma])]

(* Inputs of the deep-represent model *)

RawDims == {0 - 1, 0, 2}
HeadDims == {0 - 1, 0, 1, 2}
Layers ==
    { << << >>, << >> >>,
      << << 4 >>, << "relu" >> >>,
      << << 4 >>, << >> >>,
      << << 4 >>, << "relu", "linear" >> >>,
      << << 4, 3 >>, << "relu" >> >> }
PredictUcbValues == {"True", "False", "1.0"}

\* raw inputs of n rows
RawInputs(raw) ==
    { [r \in 1 .. n |-> [c \in 1 .. raw |-> IF c = 1 THEN n ELSE r]] : n \in 1 .. MaxRows }

\* features, rewards and observation counts fed to the head of dimension d
HeadUpdates(d) ==
    UNION { { [x |-> [r \in 1 .. n |-> [c \in 1 .. d |-> IF c = ((r - 1) % d) + 1 THEN 1 ELSE 0]],
               y |-> Rewards(n, 0), weight |-> w] :
              w \in {None, Some(Column(n, 0)), Some(Column(n, MaxWeight))} } :
            n \in 1 .. MaxRows }

Construct ==
    /\ dlast.op = "idle"
    /\ ~deep.constructed
    /\ nops < MaxDeepOps
    /\ \E raw \in RawDims, d \in HeadDims, l \in Layers, p \in PredictUcbValues :
          LET r == construct(raw, l[1], d, l[2], p)
          IN  /\ deep' = r.model
              /\ dlast' = DeepCall("construct",
                                   [NoArgs EXCEPT !.raw_input_dim = raw, !.sizes = l[1],
                                                  !.linucb_inp_dim = d, !.activations = l[2],
                                                  !.predict_ucb = p],
                                   NewHead(1), r.ok, r.err, None)
    /\ nops' = nops + 1
    /\ UNCHANGED <<scorer, pre, last, mask>>

DeepUpdate ==
    /\ dlast.op = "idle"
    /\ deep.constructed
    /\ nops < MaxDeepOps
    /\ \E u \in HeadUpdates(NRows(deep.head.A)) :
          /\ deep' = [deep EXCEPT !.head = update_head(deep.head, u.x, u.y, u.weight)]
          /\ dlast' = DeepCall("update", NoArgs, deep.head, TRUE, "none", None)
    /\ nops' = nops + 1
    /\ UNCHANGED <<scorer, pre, last, mask>>

DeepEstimate ==
    /\ dlast.op = "idle"
    /\ deep.constructed
    /\ nops < MaxDeepOps
    /\ deep' = [deep EXCEPT !.head = estimate_head(deep.head)]
    /\ dlast' = DeepCall("estimate_coefs", NoArgs, deep.head, TRUE, "none", None)
    /\ nops' = nops + 1
    /\ UNCHANGED <<scorer, pre, last, mask>>

Forward ==
    /\ dlast.op = "idle"
    /\ deep.constructed
    /\ nops < MaxDeepOps
    /\ \E inp \in RawInputs(deep.raw_input_dim), a \in {None, Some(0), Some(2)} :
          LET r == forward(deep, inp, a)
          IN  /\ deep' = r.model
              /\ dlast' = DeepCall("forward", [NoArgs EXCEPT !.inp = inp, !.ucb_alpha = a],
                                   deep.head, r.ok, r.err, r.ret)
    /\ nops' = nops + 1
    /\ UNCHANGED <<scorer, pre, last, mask>>

DeepResume ==
    /\ dlast.op # "idle"
    /\ dlast' = NoDeepCall
    /\ UNCHANGED <<scorer, pre, last, nops, deep, mask>>

NextDeep == Construct \/ DeepUpdate \/ DeepEstimate \/ Forward \/ DeepResume

SpecDeep == Init /\ [][NextDeep]_vars

(* ------------------------------------------------------------------ *)
(* synthetic_reward._gen_mask                                          *)
(* ------------------------------------------------------------------ *)

\* _gen_mask comparing with > instead of >=
gen_mask_strict(valid_step, batch_size, seq_len) ==
    [i \in 1 .. batch_size |->
        [j \in 1 .. seq_len |-> IF (j - 1) > seq_len - valid_step[i][1] THEN 1 ELSE 0]]

\* torch.arange(seq_len).repeat(batch_size, 1) >= seq_len - valid_step,
\* as floats; columns are numbered from 0, valid_step has shape (batch_size, 1)
gen_mask(valid_step, batch_size, seq_len) ==
    [i \in 1 .. batch_size |->
        [j \in 1 .. seq_len |-> IF (j - 1) >= seq_len - valid_step[i][1] THEN 1 ELSE 0]]

\* valid_step tensors of shape (batch_size, 1) with entries in 1 .. seq_len
ValidSteps(batch_size, seq_len) ==
    { AsColumn(v) : v \in [1 .. batch_size -> 1 .. seq_len] }

GenMask ==
    /\ \E batch_size \in 1 .. MaxBatchSize, seq_len \in 1 .. MaxSeqLen :
          \E valid_step \in ValidSteps(batch_size, seq_len) :
             mask' = [valid_step |-> valid_step, batch_size |-> batch_size,
                      seq_len |-> seq_len,
                      out |-> Some(gen_mask(valid_step, batch_size, seq_len))]
    /\ UNCHANGED <<scorer, pre, last, nops, deep, dlast>>

NextMask == GenMask

SpecMask == Init /\ [][NextMask]_vars

(* ------------------------------------------------------------------ *)
(* Properties                                                          *)
(* ------------------------------------------------------------------ *)

\* the statistics of every arm are those before the call
StatisticsUntouched ==
    \A k \in Arms : scorer[k].A = pre[k].A /\ scorer[k].b = pre[k].b

\* some arm had accumulated statistics before the call
HadStatistics == \E k \in Arms : pre[k].A # ZeroMat(Dim)

Rejected(sub_batch) ==
    sub_batch.context_arm_features.ndim # 2 \/ IsNone(sub_batch.reward)

\* C1: training_step on a batch whose length is not the number of arms
\* fails, and the A and b of every arm are what they were before the call.
C1_WrongLengthFails ==
    (last.op = "training_step" /\ Len(last.batch) # NumArms)
        => (~last.ok /\ StatisticsUntouched)

C1_Witness ==
    /\ last.op = "training_step"
    /\ Len(last.batch) > NumArms
    /\ ~last.ok
    /\ HadStatistics

\* C2: training_step on a batch of the right length with a sub-batch, at
\* any index, whose features are not 2-D or whose reward is absent fails
\* with the A and b of every arm unchanged, the earlier arms included.
C2_RejectedBeforeMutation ==
    (/\ last.op = "training_step"
     /\ Len(last.batch) = NumArms
     /\ \E i \in 1 .. Len(last.batch) : Rejected(last.batch[i]))
        => (~last.ok /\ StatisticsUntouched)

C2_Witness ==
    /\ last.op = "training_step"
    /\ Len(last.batch) = NumArms
    /\ Rejected(last.batch[NumArms])
    /\ \A i \in 1 .. (NumArms - 1) : ~Rejected(last.batch[i])
    /\ ~last.ok
    /\ HadStatistics

\* C3: update_params with arm_idx = i leaves the A and b of every other
\* arm j as they were, whatever x, y and weight are and whether or not the
\* call returns.
C3_OtherArmsUntouched ==
    last.op = "update_params"
        => \A j \in Arms :
              j # ArmOf(last.arm_idx)
                 => (scorer[j].A = pre[j].A /\ scorer[j].b = pre[j].b)

C3_Witness ==
    /\ last.op = "update_params"
    /\ last.ok
    /\ ArmOf(last.arm_idx) \in Arms
    /\ scorer[ArmOf(last.arm_idx)].A # pre[ArmOf(last.arm_idx)].A
    /\ \E j \in Arms : j # ArmOf(last.arm_idx) /\ pre[j].A # ZeroMat(Dim)

\* the derived values of a head solve the ridge equations of its A and b:
\* (A + lambda I) coefs = b and (A + lambda I) inv_A = I
RidgeSolved(h) ==
    /\ h.coefs.den # 0
    /\ h.inv_A.den # 0
    /\ MatVec(Regularized(h.A), h.coefs.num) = VecScale(h.coefs.den, h.b)
    /\ MatMul(Regularized(h.A), h.inv_A.num) = MatScale(h.inv_A.den, Eye(NRows(h.A)))
    /\ h.coefs_valid_for_A = h.A

\* C6: training_step leaves the coefficients and the inverse of every arm
\* as they were; on_train_epoch_end leaves A and b alone and ends with the
\* coefficients and inverse of every arm solving the ridge equations of
\* that arm's current A and b.
C6_EstimationAtEpochEnd ==
    /\ last.op = "training_step"
          => \A k \in Arms :
                /\ scorer[k].coefs = pre[k].coefs
                /\ scorer[k].inv_A = pre[k].inv_A
                /\ scorer[k].coefs_valid_for_A = pre[k].coefs_valid_for_A
    /\ last.op = "on_train_epoch_end"
          => /\ last.ok
             /\ StatisticsUntouched
             /\ \A k \in Arms : RidgeSolved(scorer[k])

\* an epoch end that finds coefficients estimated earlier and made stale
\* by the steps since
C6_Witness ==
    /\ last.op = "on_train_epoch_end"
    /\ \A k \in Arms :
          /\ pre[k].coefs_valid_for_A # Fill(Dim, 0 - 1)
          /\ pre[k].coefs_valid_for_A # pre[k].A
          /\ scorer[k].coefs # pre[k].coefs

\* the weight of row r of a sub-batch of n rows: ones when absent
RowWeight(sub_batch, r) ==
    IF IsNone(sub_batch.weight) THEN 1
    ELSE Val(sub_batch.weight)[Pick(Len(Val(sub_batch.weight)), r)]

RowReward(sub_batch, r) == Val(sub_batch.reward)[Pick(Len(Val(sub_batch.reward)), r)]

\* x^T (x * w) and x^T (y * w), entry by entry
ExpectedA(sub_batch) ==
    LET x == sub_batch.context_arm_features.data
    IN  [i \in 1 .. Dim |->
           [j \in 1 .. Dim |->
              Sum([r \in 1 .. NRows(x) |-> x[r][i] * x[r][j] * RowWeight(sub_batch, r)])]]

ExpectedB(sub_batch) ==
    LET x == sub_batch.context_arm_features.data
    IN  [i \in 1 .. Dim |->
           Sum([r \in 1 .. NRows(x) |->
                  x[r][i] * RowReward(sub_batch, r) * RowWeight(sub_batch, r)])]

\* the batch with every absent weight replaced by a column of ones, one
\* per row of the features
WithExplicitOnes(batch) ==
    [i \in 1 .. Len(batch) |->
        IF IsNone(batch[i].weight)
        THEN [batch[i] EXCEPT
                 !.weight = Some(Ones(NRows(batch[i].context_arm_features.data)))]
        ELSE batch[i]]

\* C9: a training_step that returns has added, for every arm k, the
\* contribution of the sub-batch at index k and nothing else:
\* A[k] = old A[k] + x_k^T (x_k * w_k), b[k] = old b[k] + x_k^T (y_k * w_k),
\* with w_k a column of ones, one per row of x_k, when the weight is absent;
\* the same batch with every absent weight written out as ones gives the
\* same scorer.
C9_StepAddsEachSubBatchOnce ==
    (last.op = "training_step" /\ last.ok)
        => /\ \A k \in Arms :
                 /\ scorer[k].A = MatAdd(pre[k].A, ExpectedA(last.batch[k + 1]))
                 /\ scorer[k].b = VecAdd(pre[k].b, ExpectedB(last.batch[k + 1]))
           /\ training_step(pre, WithExplicitOnes(last.batch)).sc = scorer

C9_Witness ==
    /\ last.op = "training_step"
    /\ last.ok
    /\ HadStatistics
    /\ \A i \in 1 .. NumArms :
          /\ ~IsNone(last.batch[i].weight)
          /\ NRows(last.batch[i].context_arm_features.data) > 1
          /\ RowWeight(last.batch[i], 1) > 1

\* a step on statistics already accumulated, every weight absent
C9_AbsentWeightReached ==
    /\ last.op = "training_step"
    /\ last.ok
    /\ HadStatistics
    /\ \A i \in 1 .. NumArms :
          /\ IsNone(last.batch[i].weight)
          /\ NRows(last.batch[i].context_arm_features.data) > 1

\* C10: after any call, returned or failed, every arm has had a sub-batch
\* added to both its A and its b or to neither.
C10_NoPartialUpdate ==
    \A k \in Arms : (k \in last.updA) <=> (k \in last.updB)

\* C4: a forward that returns has used coefficients and an inverse that
\* solve the ridge equations of the head's current A and b, whatever
\* updates and estimations came before: the point estimate is
\* mlp_out . coefs, the uncertainty is alpha * sqrt(x^T inv_A x) per row.
\* (Observation counts are non-negative, arithmetic is exact.)
C4_ForwardUsesCurrentStatistics ==
    (dlast.op = "forward" /\ dlast.ok)
        => LET h == deep.head
               x == Val(deep.mlp_out)
               ret == Val(dlast.ret)
           IN  /\ h.A = dlast.before.A
               /\ h.b = dlast.before.b
               /\ RidgeSolved(h)
               /\ ret.u.den = h.coefs.den
               /\ ret.sigma.den = h.inv_A.den
               /\ \A r \in 1 .. NRows(x) :
                     /\ ret.u.num[r] = Dot(x[r], h.coefs.num)
                     /\ ret.sigma.num[r] = Dot(x[r], MatVec(h.inv_A.num, x[r]))
               /\ deep.pred_u = Some(ret.u)
               /\ deep.pred_sigma = Some(ret.sigma)

\* a forward that found coefficients estimated for statistics that have
\* been added to since
C4_Witness ==
    /\ dlast.op = "forward"
    /\ dlast.ok
    /\ dlast.before.coefs_valid_for_A # Fill(NRows(dlast.before.A), 0 - 1)
    /\ dlast.before.coefs_valid_for_A # dlast.before.A
    /\ dlast.before.coefs.num # Zeros(NRows(dlast.before.A))
    /\ deep.head.coefs # dlast.before.coefs

\* C5: with predict_ucb other than True, forward returns nothing and
\* raises the exception whose message says that only predicting ucb is
\* supported.
C5_OnlyUcbErrorRaised ==
    (dlast.op = "forward" /\ deep.predict_ucb # "True")
        => (~dlast.ok /\ IsNone(dlast.ret) /\ dlast.err = OnlyUcbError)

\* C7: __init__ fails, leaving no model, exactly when raw_input_dim <= 0
\* or linucb_inp_dim <= 0 or sizes and activations differ in length.
C7_ConstructionValidated ==
    dlast.op = "construct"
        => /\ dlast.ok <=> (/\ dlast.args.raw_input_dim > 0
                            /\ dlast.args.linucb_inp_dim > 0
                            /\ Len(dlast.args.sizes) = Len(dlast.args.activations))
           /\ dlast.ok <=> deep.constructed
           /\ ~dlast.ok => dlast.err \in {"AssertionError", "RuntimeError"}

C7_Witness ==
    /\ dlast.op = "construct"
    /\ ~dlast.ok
    /\ ~deep.constructed
    /\ dlast.args.raw_input_dim > 0
    /\ dlast.args.linucb_inp_dim > 0
    /\ Len(dlast.args.sizes) # Len(dlast.args.activations)

====
